---- MODULE Spec2Model ----
(***************************************************************************)
(* Model of the iced text editor (src/main.rs, src/error.rs).              *)
(*                                                                         *)
(* The Editor state is mutated only by Editor::update, one message at a    *)
(* time.  The two async commands (open, save) run on the executor next to  *)
(* the update loop: each is a task that advances through its await points  *)
(* (file dialog, file read / write) and then leaves one completion message *)
(* in the inbox of the update loop.                                        *)
(*                                                                         *)
(* Option<T> is modelled as a sequence: None == << >>, Some(x) == <<x>>.   *)
(* The text buffer (text_editor::Content, an external widget) is modelled  *)
(* by the text it holds; its cursor and selection are abstracted: an       *)
(* editing action may hit any position of the text.                        *)
(***************************************************************************)
EXTENDS Bags, FiniteSets, Integers, Sequences, TLC

\* ---------------------------------------------------------------- bounds
\* most commands and completion messages outstanding at once
MaxTasks == 2
\* most Save messages, and most Open messages, processed while the history
\* of processed messages is being counted
MaxIssued == 1

\* ------------------------------------------------------------ value sets
Chars == {"a"}

DefaultFile == "src/main.rs"
\* a file name the dialogs can return whose bytes are no valid UTF-8
\* (0xE9 is Latin-1 for e-acute); a PathBuf holds any bytes
Latin1File == "caf\\xE9.txt"
Paths == {DefaultFile, Latin1File}

Themes == {"SolarizedDark", "Base16Mocha"}

None == << >>
Some(x) == <<x>>

\* EditorError: IoError(io::Error) | PickFileError
PickFileError == "PickFileError"
IoError == "IoError"
EditorError == {IoError, PickFileError}

\* the texts a buffer or a file holds: empty, or not
Texts == {<< >>} \cup {<<c>> : c \in Chars}

\* text_editor::Action: Edit(Insert(c)) | Edit(Backspace) | Move(..)
Actions ==
    {[tag |-> "Edit", edit |-> "Insert", ch |-> c] : c \in Chars}
        \cup {[tag |-> "Edit", edit |-> "Backspace", ch |-> ""]}
        \cup {[tag |-> "Move", edit |-> "", ch |-> ""]}

\* ----------------------------------------------------------------- state
VARIABLES
    path,      \* Editor.path      : Option<PathBuf>
    content,   \* Editor.content   : the buffer text
    error,     \* Editor.error     : Option<EditorError>
    theme,     \* Editor.theme     : highlighter::Theme
    is_dirty,  \* Editor.is_dirty  : bool
    fs,        \* the file system  : path -> Option<text>
    tasks,     \* bag of commands running on the executor
    inbox,     \* bag of completion messages not yet given to update
    last,      \* the kind of message update processed last
    hist       \* how many Save, FileSaved, Open, FileOpened update processed

editor == <<path, content, error, theme, is_dirty>>
vars == <<path, content, error, theme, is_dirty, fs, tasks, inbox, last, hist>>

Outstanding == BagCardinality(tasks) + BagCardinality(inbox)

Put(bag, x) == bag (+) SetToBag({x})
Take(bag, x) == bag (-) SetToBag({x})


\* ------------------------------------------------------------- messages
\* Result<T, EditorError>
Ok(p) == [ok |-> TRUE, path |-> p]
OkText(p, t) == [ok |-> TRUE, path |-> p, contents |-> t]
Err(e) == [ok |-> FALSE, err |-> e]

\* enum Message
MsgEdit(a) == [type |-> "Edit", action |-> a]
MsgNew == [type |-> "New"]
MsgSave == [type |-> "Save"]
MsgFileSaved(r) == [type |-> "FileSaved", result |-> r]
MsgOpen == [type |-> "Open"]
MsgFileOpened(r) == [type |-> "FileOpened", result |-> r]
MsgThemeSelected(t) == [type |-> "ThemeSelected", theme |-> t]

\* ------------------------------------------------------ the text buffer
\* text_editor::Action::is_edit
is_edit(action) == action.tag = "Edit"

InsertAt(t, at, c) == SubSeq(t, 1, at) \o <<c>> \o SubSeq(t, at + 1, Len(t))
RemoveAt(t, at) == SubSeq(t, 1, at - 1) \o SubSeq(t, at + 1, Len(t))

\* text_editor::Content::perform with the cursor after the first `at`
\* characters: Insert puts the character there, Backspace removes the
\* character before it (nothing at the start), a Move changes no text.
perform(t, action, at) ==
    IF action.tag = "Edit" /\ action.edit = "Insert" THEN InsertAt(t, at, action.ch)
    ELSE IF action.tag = "Edit" /\ action.edit = "Backspace" /\ at > 0 THEN RemoveAt(t, at)
    ELSE t

\* text_editor::Content::new / with_text
ContentNew == << >>
ContentWithText(t) == t

\* ------------------------------------------------------- async commands
\* A command is a task: the await point it is at (stage: a file dialog, or
\* the read / write), the path it reads or writes once known (target) and
\* the text it writes.
Task(kind, stage, target, contents) ==
    [kind |-> kind, stage |-> stage, target |-> target, contents |-> contents]

\* (variant) save_file that asks for a name even when it has a path
save_file_always_asks(p, contents) == Task("save", "dialog", None, contents)

\* save_file up to its first await: a known path goes straight to
\* fs::write, no path opens the save dialog
save_file(p, contents) ==
    IF p # None
    THEN Task("save", "write", p, contents)
    ELSE Task("save", "dialog", None, contents)

\* load_file up to its await on fs::read_to_string
load_file(p) == Task("open", "read", Some(p), << >>)

\* pick_file up to its await on the open dialog
pick_file == Task("open", "dialog", None, << >>)

\* (variant) a startup that loads another file
default_file_other == Latin1File

default_file == DefaultFile

\* Command::none() / Command::perform(task, ..)
CommandNone == None
CommandPerform(task) == Some(task)

\* ------------------------------------------------------- Editor::update
Self == [path |-> path, content |-> content, error |-> error,
         theme |-> theme, is_dirty |-> is_dirty]

\* (variant) New that leaves is_dirty as it is
update_New_stays_clean(self) ==
    [self EXCEPT !.path = None, !.error = None, !.content = ContentNew]

\* (variant) New that forgets to clear the error
update_New_keeps_error(self) ==
    [self EXCEPT !.path = None, !.is_dirty = TRUE, !.content = ContentNew]

update_New(self) ==
    [self EXCEPT !.path = None, !.error = None, !.is_dirty = TRUE,
                 !.content = ContentNew]

\* (variant) Save that does nothing when the buffer is clean
update_Save_only_dirty(self) ==
    IF self.is_dirty
    THEN CommandPerform(save_file(self.path, self.content))
    ELSE CommandNone

update_Save(self) == CommandPerform(save_file(self.path, self.content))

\* (variant) FileSaved(Ok) that keeps a path the Editor already has
update_FileSaved_Ok_first_wins(self, p) ==
    [self EXCEPT !.path = IF self.path = None THEN Some(p) ELSE self.path,
                 !.is_dirty = FALSE]

update_FileSaved_Ok(self, p) ==
    [self EXCEPT !.path = Some(p), !.is_dirty = FALSE]

\* (variant) a failed save that also forgets the path
update_FileSaved_Err_drops_path(self, err) ==
    [self EXCEPT !.error = Some(err), !.path = None]

update_FileSaved_Err(self, err) ==
    [self EXCEPT !.error = Some(err)]

\* (variant) Edit that marks the buffer dirty whatever the action
update_Edit_always_dirty(self, action, at) ==
    [self EXCEPT !.is_dirty = TRUE,
                 !.content = perform(self.content, action, at)]

\* (variant) Edit that assigns is_edit() instead of or-ing it in
update_Edit_assigns(self, action, at) ==
    [self EXCEPT !.is_dirty = is_edit(action),
                 !.content = perform(self.content, action, at)]

update_Edit(self, action, at) ==
    [self EXCEPT !.is_dirty = self.is_dirty \/ is_edit(action),
                 !.content = perform(self.content, action, at)]

update_Open(self) == CommandPerform(pick_file)

\* (variant) FileOpened(Ok) that keeps the old buffer
update_FileOpened_Ok_keeps_buffer(self, p, contents) ==
    [self EXCEPT !.path = Some(p), !.error = None, !.is_dirty = FALSE]

update_FileOpened_Ok(self, p, contents) ==
    [self EXCEPT !.path = Some(p), !.error = None, !.is_dirty = FALSE,
                 !.content = ContentWithText(contents)]

\* (variant) a failed open that marks the buffer clean
update_FileOpened_Err_cleans(self, err) ==
    [self EXCEPT !.error = Some(err), !.is_dirty = FALSE]

update_FileOpened_Err(self, err) ==
    [self EXCEPT !.error = Some(err)]

\* (variant) ThemeSelected that marks the buffer dirty
update_ThemeSelected_dirties(self, t) ==
    [self EXCEPT !.theme = t, !.is_dirty = TRUE]

update_ThemeSelected(self, t) ==
    [self EXCEPT !.theme = t]

\* update(&mut self, message) -> Command: the new Editor and the command
\* returned.  `at` is where the buffer's cursor stands (used by Edit only).
update(self, message, at) ==
    CASE message.type = "New" ->
            [self |-> update_New(self), command |-> CommandNone]
      [] message.type = "Save" ->
            [self |-> self, command |-> update_Save(self)]
      [] message.type = "FileSaved" /\ message.result.ok ->
            [self |-> update_FileSaved_Ok(self, message.result.path),
             command |-> CommandNone]
      [] message.type = "FileSaved" /\ ~message.result.ok ->
            [self |-> update_FileSaved_Err(self, message.result.err),
             command |-> CommandNone]
      [] message.type = "Edit" ->
            [self |-> update_Edit(self, message.action, at), command |-> CommandNone]
      [] message.type = "Open" ->
            [self |-> self, command |-> update_Open(self)]
      [] message.type = "FileOpened" /\ message.result.ok ->
            [self |-> update_FileOpened_Ok(self, message.result.path,
                                           message.result.contents),
             command |-> CommandNone]
      [] message.type = "FileOpened" /\ ~message.result.ok ->
            [self |-> update_FileOpened_Err(self, message.result.err),
             command |-> CommandNone]
      [] message.type = "ThemeSelected" ->
            [self |-> update_ThemeSelected(self, message.theme),
             command |-> CommandNone]

\* the match arm of update a message takes
Kind(message) ==
    IF message.type \in {"FileSaved", "FileOpened"}
    THEN IF message.result.ok THEN message.type \o "Ok" ELSE message.type \o "Err"
    ELSE message.type

\* --------------------------------------------------------- Editor::view
\* (variant) a Save button that is given its message in every state
view_save_always(self) == Some(MsgSave)

\* the message view gives the Save button of the toolbar:
\* self.is_dirty.then_some(Message::Save)
view_save(self) == IF self.is_dirty THEN Some(MsgSave) ELSE None

\* action(): the button is built with on_press_maybe(press), so pressing it
\* produces the message it was given, and nothing when it was given none
on_press_maybe(press) == IF press = None THEN {} ELSE {press[1]}

\* EditorError's Display (the text of the io::Error is left out)
to_string(err) == IF err = PickFileError THEN "Open file error" ELSE "IO error"

\* Path::to_str: the path as &str, None unless it is valid Unicode
to_str(p) == IF p = Latin1File THEN None ELSE Some(p)

\* self.path.as_deref().and_then(Path::to_str)
path_str(self) == IF self.path = None THEN None ELSE to_str(self.path[1])

\* the text view puts in the status bar
status(self) ==
    IF self.error # None THEN to_string(self.error[1])
    ELSE IF path_str(self) # None THEN path_str(self)[1]
    ELSE "New file"

\* the history of processed messages: not kept (on = FALSE) or counted
HistOff == [on |-> FALSE, save |-> 0, saved |-> 0, open |-> 0, opened |-> 0]
HistZero == [HistOff EXCEPT !.on = TRUE]

Count(h, message) ==
    IF ~h.on THEN h
    ELSE IF message.type = "Save" THEN [h EXCEPT !.save = @ + 1]
    ELSE IF message.type = "FileSaved" THEN [h EXCEPT !.saved = @ + 1]
    ELSE IF message.type = "Open" THEN [h EXCEPT !.open = @ + 1]
    ELSE IF message.type = "FileOpened" THEN [h EXCEPT !.opened = @ + 1]
    ELSE h

\* The runtime hands one message to update, stores the Editor it leaves and
\* spawns the command it returns.
Dispatch(message, at) ==
    \E r \in {update(Self, message, at)} :
        /\ path' = r.self.path
        /\ content' = r.self.content
        /\ error' = r.self.error
        /\ theme' = r.self.theme
        /\ is_dirty' = r.self.is_dirty
        /\ tasks' = IF r.command = None THEN tasks ELSE Put(tasks, r.command[1])
        /\ last' = Kind(message)
        /\ hist' = Count(hist, message)

\* --------------------------------------------------------------- actions
\* Editor::new: the initial Editor and the startup command.  The default
\* file may be missing; no other file exists before a save creates it.
Editor_new ==
    /\ path = None
    /\ content = ContentNew
    /\ error = None
    /\ theme = "SolarizedDark"
    /\ is_dirty = TRUE
    /\ tasks = SetToBag({load_file(default_file)})
    /\ inbox = EmptyBag
    /\ fs \in {f \in [Paths -> {None} \cup {Some(t) : t \in Texts}] :
                 \A p \in Paths \ {DefaultFile} : f[p] = None}
    /\ last = "Init"

Init == Editor_new /\ hist = HistOff

\* the start in a directory that has no src/main.rs, so that the startup
\* open fails, with the processed messages counted
InitCount == Editor_new /\ hist = HistZero /\ fs[DefaultFile] = None

\* messages from the user (toolbar, shortcut, editing widget, theme list)
New ==
    /\ Dispatch(MsgNew, 0)
    /\ UNCHANGED <<fs, inbox>>

SaveMessage(m) ==
    /\ Outstanding < MaxTasks
    /\ hist.save < MaxIssued
    /\ Dispatch(m, 0)
    /\ UNCHANGED <<fs, inbox>>

\* the Save button of the toolbar is pressed
SaveButton == \E m \in on_press_maybe(view_save(Self)) : SaveMessage(m)

\* subscription(): Cmd/Ctrl+S is pressed
SaveShortcut == SaveMessage(MsgSave)

Save == SaveButton \/ SaveShortcut

Open ==
    /\ Outstanding < MaxTasks
    /\ hist.open < MaxIssued
    /\ Dispatch(MsgOpen, 0)
    /\ UNCHANGED <<fs, inbox>>

EditStep(a, at) ==
    /\ perform(content, a, at) \in Texts
    /\ (a.tag = "Move") => at = 0
    /\ Dispatch(MsgEdit(a), at)
    /\ UNCHANGED <<fs, inbox>>

Edit == \E a \in Actions, at \in 0..Len(content) : EditStep(a, at)

ThemeSelectedStep(t) ==
    /\ Dispatch(MsgThemeSelected(t), 0)
    /\ UNCHANGED <<fs, inbox>>

ThemeSelected == \E t \in Themes : ThemeSelectedStep(t)

\* completion messages: the runtime takes one from the inbox
Completed(m) ==
    /\ BagIn(m, inbox)
    /\ Dispatch(m, 0)
    /\ inbox' = Take(inbox, m)
    /\ UNCHANGED fs

FileSaved == \E m \in BagToSet(inbox) : m.type = "FileSaved" /\ Completed(m)

FileOpened == \E m \in BagToSet(inbox) : m.type = "FileOpened" /\ Completed(m)

\* (variant) a task that ends without leaving its message
Finish_drops_message(task, msg) ==
    /\ tasks' = Take(tasks, task)
    /\ inbox' = inbox

\* a task ends: its result, wrapped in its message, waits for update
Finish(task, msg) ==
    /\ tasks' = Take(tasks, task)
    /\ inbox' = Put(inbox, msg)

\* the save dialog of save_file: the user names a file ...
SaveDialogPick(task, p) ==
    /\ BagIn(task, tasks)
    /\ task.kind = "save" /\ task.stage = "dialog"
    /\ tasks' = Put(Take(tasks, task),
                    [task EXCEPT !.stage = "write", !.target = Some(p)])
    /\ UNCHANGED <<editor, fs, inbox, last, hist>>

\* ... or cancels: ok_or(EditorError::PickFileError)?
SaveDialogCancel(task) ==
    /\ BagIn(task, tasks)
    /\ task.kind = "save" /\ task.stage = "dialog"
    /\ Finish(task, MsgFileSaved(Err(PickFileError)))
    /\ UNCHANGED <<editor, fs, last, hist>>

SaveDialog ==
    \E task \in BagToSet(tasks) :
        \/ \E p \in Paths : SaveDialogPick(task, p)
        \/ SaveDialogCancel(task)

\* (variant) a write that truncates the file and stores nothing
fs_write_truncates(files, p, contents) == [files EXCEPT ![p] = Some(<< >>)]

\* what fs::write(&path, contents) leaves in the file system
\* (variant) a write that takes the text of the buffer when it runs
fs_write_current(files, p, contents) == [files EXCEPT ![p] = Some(content)]

fs_write(files, p, contents) == [files EXCEPT ![p] = Some(contents)]

\* fs::write(&path, contents).await? of save_file, then Ok(path)
SaveWriteOk(task) ==
    /\ BagIn(task, tasks)
    /\ task.kind = "save" /\ task.stage = "write"
    /\ fs' = fs_write(fs, task.target[1], task.contents)
    /\ Finish(task, MsgFileSaved(Ok(task.target[1])))
    /\ UNCHANGED <<editor, last, hist>>

SaveWriteErr(task) ==
    /\ BagIn(task, tasks)
    /\ task.kind = "save" /\ task.stage = "write"
    /\ Finish(task, MsgFileSaved(Err(IoError)))
    /\ UNCHANGED <<editor, fs, last, hist>>

SaveWrite ==
    \E task \in BagToSet(tasks) : SaveWriteOk(task) \/ SaveWriteErr(task)

\* the open dialog of pick_file: the user picks a file, which load_file
\* then reads ...
OpenDialogPick(task, p) ==
    /\ BagIn(task, tasks)
    /\ task.kind = "open" /\ task.stage = "dialog"
    /\ tasks' = Put(Take(tasks, task), load_file(p))
    /\ UNCHANGED <<editor, fs, inbox, last, hist>>

\* ... or cancels: ok_or(EditorError::PickFileError)?
OpenDialogCancel(task) ==
    /\ BagIn(task, tasks)
    /\ task.kind = "open" /\ task.stage = "dialog"
    /\ Finish(task, MsgFileOpened(Err(PickFileError)))
    /\ UNCHANGED <<editor, fs, last, hist>>

OpenDialog ==
    \E task \in BagToSet(tasks) :
        \/ \E p \in Paths : OpenDialogPick(task, p)
        \/ OpenDialogCancel(task)

\* what fs::read_to_string(&path) returns: the text of the file, if any
fs_read_to_string(files, p) == files[p]

\* fs::read_to_string(&path).await?.into() of load_file, then Ok((path, contents))
OpenReadOk(task) ==
    /\ BagIn(task, tasks)
    /\ task.kind = "open" /\ task.stage = "read"
    /\ fs_read_to_string(fs, task.target[1]) # None
    /\ Finish(task, MsgFileOpened(OkText(task.target[1],
                                         fs_read_to_string(fs, task.target[1])[1])))
    /\ UNCHANGED <<editor, fs, last, hist>>

OpenReadErr(task) ==
    /\ BagIn(task, tasks)
    /\ task.kind = "open" /\ task.stage = "read"
    /\ Finish(task, MsgFileOpened(Err(IoError)))
    /\ UNCHANGED <<editor, fs, last, hist>>

OpenRead ==
    \E task \in BagToSet(tasks) : OpenReadOk(task) \/ OpenReadErr(task)

Next ==
    \/ New
    \/ Save
    \/ Open
    \/ Edit
    \/ ThemeSelected
    \/ FileSaved
    \/ FileOpened
    \/ SaveDialog
    \/ SaveWrite
    \/ OpenDialog
    \/ OpenRead

Spec == Init /\ [][Next]_vars

\* the same program with its processed messages counted
SpecCount == InitCount /\ [][Next]_vars

\* The executor polls every task that can go on (the read and the write are
\* awaited tokio::fs calls) and the runtime hands every completion message to
\* update.  A task that awaits a file dialog goes on when the user answers
\* the dialog: no fairness for SaveDialog and OpenDialog.
Runner ==
    /\ WF_vars(SaveWrite)
    /\ WF_vars(OpenRead)
    /\ WF_vars(FileSaved)
    /\ WF_vars(FileOpened)

SpecLive == SpecCount /\ Runner

\* ------------------------------------------------------------ properties
\* a completion message leaves the inbox and nothing else moves in the
\* executor or the file system: update issued no command
NoCommand(m) == tasks' = tasks /\ inbox' = Take(inbox, m) /\ fs' = fs

\* a message from the user that issues no command
NoCommandUser == tasks' = tasks /\ inbox' = inbox /\ fs' = fs

FileAt(p) == IF p = None THEN None ELSE fs[p[1]]

\* C1: whenever is_dirty is false, path is set and the buffer text equals
\* the contents persisted in the file at path.
C1_CleanMeansSaved ==
    ~is_dirty => (path # None /\ FileAt(path) = Some(content))

\* C2: processing a mutating Edit leaves is_dirty true, and is_dirty goes
\* from true to false only when a FileSaved(Ok) or a FileOpened(Ok) is
\* processed.
C2_DirtyUntilSavedOrOpened ==
    [][/\ is_dirty' \/ \A a \in {x \in Actions : x.tag = "Edit"}, at \in 0..Len(content) :
                        ~EditStep(a, at)
       /\ (is_dirty /\ ~is_dirty') =>
            \E m \in BagToSet(inbox) : m.result.ok /\ Completed(m)]_vars

\* a text once saved or opened (path set) is dirty again after an Edit
C2_Witness == last = "Edit" /\ is_dirty /\ path # None /\ FileAt(path) # Some(content)

\* C3: New yields path = none, error = none, dirty = true and an empty
\* buffer from any state, issues no command and keeps the theme.
C3_NewResets ==
    [][New => /\ path' = None
              /\ error' = None
              /\ is_dirty'
              /\ content' = << >>
              /\ theme' = theme
              /\ NoCommandUser]_vars

C3_Witness ==
    /\ last = "New"
    /\ path = None /\ error = None /\ is_dirty /\ content = << >>
    /\ Outstanding > 0

DialogSaves(bag) ==
    BagCardinality([t \in {x \in BagToSet(bag) : x.kind = "save" /\ x.stage = "dialog"}
                       |-> CopiesIn(t, bag)])

\* C4: a save command issued while path is Some(P) never shows the save
\* dialog: it starts at the write of P (only a Save without a path puts a
\* task at the dialog), and a task writing P completes with
\* FileSaved(Ok(P)) or FileSaved(Err(IO error)).
C4_KnownPathSkipsPicker ==
    [][/\ (Save /\ path # None) =>
            tasks' = Put(tasks, Task("save", "write", path, content))
       /\ DialogSaves(tasks') > DialogSaves(tasks) => (Save /\ path = None)
       /\ \A t \in BagToSet(tasks) :
            /\ SaveWriteOk(t) =>
                  /\ fs' = [fs EXCEPT ![t.target[1]] = Some(t.contents)]
                  /\ inbox' = Put(inbox, MsgFileSaved(Ok(t.target[1])))
            /\ SaveWriteErr(t) =>
                  /\ fs' = fs
                  /\ inbox' = Put(inbox, MsgFileSaved(Err(IoError)))]_vars

C4_Witness ==
    /\ last = "Save"
    /\ path # None
    /\ BagIn(Task("save", "write", path, content), tasks)
    /\ DialogSaves(tasks) = 0

\* a Save without a path puts a task at the save dialog; cancelling the
\* dialog writes no file and completes with FileSaved(Err(PickFileError))
C5_CancelYieldsPickError ==
    /\ (Save /\ path = None) =>
            tasks' = Put(tasks, Task("save", "dialog", None, content))
    /\ \A t \in BagToSet(tasks) :
            SaveDialogCancel(t) =>
                /\ fs' = fs
                /\ inbox' = Put(inbox, MsgFileSaved(Err(PickFileError)))

\* C5 (as stated): a cancelled save dialog writes no file and completes
\* with FileSaved(Err(PickFileError)); processing that message sets error
\* to PickFileError and path is none afterwards.
C5_PathStillNone ==
    [][/\ C5_CancelYieldsPickError
       /\ \A m \in BagToSet(inbox) :
            (m = MsgFileSaved(Err(PickFileError)) /\ Completed(m)) =>
                (error' = Some(PickFileError) /\ path' = None)]_vars

\* C5 (amended): a cancelled save dialog writes no file and completes with
\* FileSaved(Err(PickFileError)); processing that message sets error to
\* PickFileError and leaves path as it was when the message is processed.
C5_CancelKeepsPath ==
    [][/\ C5_CancelYieldsPickError
       /\ \A m \in BagToSet(inbox) :
            (m = MsgFileSaved(Err(PickFileError)) /\ Completed(m)) =>
                (error' = Some(PickFileError) /\ path' = path)]_vars

C5_Witness ==
    last = "FileSavedErr" /\ error = Some(PickFileError) /\ path = None

\* C6: FileOpened(Ok(p, t)) yields path = p, error = none, dirty = false
\* and buffer text t from any state, keeps the theme and issues no command.
C6_OpenedReplaces ==
    [][\A m \in BagToSet(inbox) :
         (m.type = "FileOpened" /\ m.result.ok /\ Completed(m)) =>
             /\ path' = Some(m.result.path)
             /\ error' = None
             /\ ~is_dirty'
             /\ content' = m.result.contents
             /\ theme' = theme
             /\ NoCommand(m)]_vars

C6_Witness ==
    /\ last = "FileOpenedOk"
    /\ path # None /\ error = None /\ ~is_dirty /\ content # << >>

\* C7: ThemeSelected(X) sets theme to X, keeps path, buffer, error and
\* dirty, and issues no command.
C7_ThemeOnly ==
    [][\A t \in Themes :
         ThemeSelectedStep(t) =>
             /\ theme' = t
             /\ path' = path /\ content' = content
             /\ error' = error /\ is_dirty' = is_dirty
             /\ NoCommandUser]_vars

C7_Witness ==
    /\ last = "ThemeSelected"
    /\ theme = "Base16Mocha"
    /\ path # None /\ error # None /\ ~is_dirty /\ content # << >>

C9_FailureOnlySetsError ==
    [][\A m \in BagToSet(inbox) :
         (~m.result.ok /\ Completed(m)) =>
             /\ error' = Some(m.result.err)
             /\ path' = path /\ content' = content
             /\ is_dirty' = is_dirty /\ theme' = theme
             /\ NoCommand(m)]_vars

C9_Witness ==
    /\ last = "FileOpenedErr"
    /\ error = Some(IoError)
    /\ path # None /\ ~is_dirty /\ content # << >>

\* C10: after a FileSaved or FileOpened message is processed the error
\* field is none (success) or the error of that message (failure).
C10_ErrorIsFromLastCompletion ==
    [][\A m \in BagToSet(inbox) :
         Completed(m) =>
             error' = IF m.result.ok THEN None ELSE Some(m.result.err)]_vars

\* C11: Save, in any state and also when is_dirty is false (the keyboard
\* shortcut), issues exactly one save command that carries the current path
\* and the whole buffer text, and changes no Editor field; Open issues exactly
\* one command that opens the file picker, and changes no Editor field; every
\* other message issues no command: a step that adds a command is a Save or
\* an Open step.
C11_CommandsIssued ==
    [][/\ (last' = "Save" /\ Save) =>
            /\ tasks' = Put(tasks, Task("save",
                                        IF path = None THEN "dialog" ELSE "write",
                                        path, content))
            /\ UNCHANGED <<editor, inbox, fs>>
       /\ (last' = "Open" /\ Open) =>
            /\ tasks' = Put(tasks, Task("open", "dialog", None, << >>))
            /\ UNCHANGED <<editor, inbox, fs>>
       /\ BagCardinality(tasks') > BagCardinality(tasks) => (Save \/ Open)]_vars

\* a Save processed on a clean buffer has issued its command
C11_Witness ==
    /\ last = "Save"
    /\ ~is_dirty
    /\ error = None
    /\ BagIn(Task("save", "write", path, content), tasks)

\* the Editor as Editor::new leaves it, with its one command: the read of
\* the default file (no dialog), running or already completed
C12_AtStartup ==
    /\ path = None /\ error = None /\ content = << >> /\ is_dirty
    /\ Outstanding = 1
    /\ \/ tasks = SetToBag({Task("open", "read", Some(DefaultFile), << >>)})
       \/ \E m \in BagToSet(inbox) :
             /\ m.type = "FileOpened"
             /\ IF m.result.ok THEN m.result.path = DefaultFile
                               ELSE m.result.err = IoError

\* the completion of the startup open: no Open was processed, so the one
\* FileOpened there can be is its completion
StartupFailed(m) ==
    /\ hist.open = 0
    /\ m.type = "FileOpened" /\ ~m.result.ok
    /\ Completed(m)

\* C12 as stated: processing the failure of the startup open sets error and
\* leaves path none, the buffer empty and is_dirty true.
C12_StartupFailureLeavesEmpty ==
    [][\A m \in BagToSet(inbox) : StartupFailed(m) =>
          /\ error' = Some(IoError)
          /\ path' = None /\ content' = << >> /\ is_dirty']_vars

\* C12 (amended): until update has processed a message the Editor is as
\* Editor::new left it, with exactly the startup open outstanding; processing
\* the failure of that open sets error and keeps path, buffer and is_dirty as
\* they are, which is none, empty and true when no message came before it;
\* afterwards update still takes messages.
C12_StartupFailureKeepsState ==
    /\ [](last = "Init" => C12_AtStartup)
    /\ [][\A m \in BagToSet(inbox) : StartupFailed(m) =>
            /\ error' = Some(IoError)
            /\ path' = path /\ content' = content /\ is_dirty' = is_dirty
            /\ last = "Init" =>
                  path' = None /\ content' = << >> /\ is_dirty' /\ Outstanding' = 0]_vars
    /\ [](last = "FileOpenedErr" => ENABLED New /\ ENABLED Edit)

\* the startup open has failed and nothing else was issued
C12_Witness ==
    /\ last = "FileOpenedErr"
    /\ hist.opened = 1 /\ hist.open = 0 /\ hist.save = 0
    /\ error = Some(IoError)
    /\ path = None /\ content = << >> /\ is_dirty
    /\ Outstanding = 0

\* C13: in every reachable state pressing the Save button of the toolbar
\* produces a Save message if and only if is_dirty is true; when is_dirty is
\* false the toolbar produces no Save, so a Save processed then came from the
\* shortcut.
C13_SaveButtonIffDirty ==
    [][/\ (MsgSave \in on_press_maybe(view_save(Self))) <=> is_dirty
       /\ ~is_dirty => on_press_maybe(view_save(Self)) = {}
       /\ SaveButton => is_dirty]_vars

\* a clean buffer, its Save button dead, and a Save processed all the same
C13_Witness ==
    /\ ~is_dirty
    /\ on_press_maybe(view_save(Self)) = {}
    /\ last = "Save"
    /\ Outstanding = 1

\* C14: the status line is a function of the state with a fixed priority: if
\* error is set it shows the error, also when path is set; otherwise if path
\* is set it shows the path; otherwise it shows "New file".
C14_StatusPriority ==
    /\ error # None => status(Self) = to_string(error[1])
    /\ (error = None /\ path # None) => status(Self) = path[1]
    /\ (error = None /\ path = None) => status(Self) = "New file"

\* C15: processing Edit(action) sets is_dirty to (old is_dirty OR the action
\* is a mutation); an Edit whose action is no mutation (cursor movement,
\* selection) leaves is_dirty, path, error, theme and the buffer text as they
\* are; no Edit changes path, error or theme or issues a command.
C15_EditFrame ==
    [][\A a \in Actions, at \in 0..Len(content) : (last' = "Edit" /\ EditStep(a, at)) =>
          /\ is_dirty' = (is_dirty \/ a.tag = "Edit")
          /\ a.tag # "Edit" => (is_dirty' = is_dirty /\ content' = content)
          /\ path' = path /\ error' = error /\ theme' = theme
          /\ NoCommandUser]_vars

\* the cursor was moved in a clean buffer, which is still clean
C15_Witness ==
    /\ last = "Edit"
    /\ ~is_dirty
    /\ path # None
    /\ content # << >>

\* commands of a kind that were issued and whose completion update has not
\* processed: running tasks and waiting messages
Pending(kind, type) ==
    BagCardinality([t \in {x \in BagToSet(tasks) : x.kind = kind}
                      |-> CopiesIn(t, tasks)])
    + BagCardinality([m \in {x \in BagToSet(inbox) : x.type = type}
                        |-> CopiesIn(m, inbox)])

\* commands of a kind that wait for the user to answer their dialog
AtDialog(kind) ==
    BagCardinality([t \in {x \in BagToSet(tasks) :
                              x.kind = kind /\ x.stage = "dialog"}
                      |-> CopiesIn(t, tasks)])

\* every command leaves one completion and every completion is processed
\* once: what was issued is what was processed plus what is pending
C16_Accounting ==
    /\ hist.save = hist.saved + Pending("save", "FileSaved")
    /\ hist.open + 1 = hist.opened + Pending("open", "FileOpened")
    /\ hist.saved <= hist.save
    /\ hist.opened <= hist.open + 1

\* C16 as stated, its liveness half: with a fair task runner the completion
\* of every issued command is eventually processed, so that again and again
\* (commands being issued now and then) nothing issued is left unprocessed.
C16_EveryCompletionProcessed == []<>(Outstanding = 0)

\* C16 (amended): every command is one-shot, the FileSaved processed are at
\* most the Save processed and the FileOpened processed at most the Open
\* processed plus one; with a fair task runner the completion of every issued
\* command that does not wait for its dialog is eventually processed.
C16_OneShot ==
    /\ []C16_Accounting
    /\ []<>(/\ Pending("save", "FileSaved") = AtDialog("save")
            /\ Pending("open", "FileOpened") = AtDialog("open"))

\* every command that could be issued was, and all are done
C16_Witness ==
    /\ hist.save = MaxIssued /\ hist.saved = MaxIssued
    /\ hist.open = MaxIssued /\ hist.opened = MaxIssued + 1
    /\ Outstanding = 0

\* C17: there is no in-flight guard and the last writer wins: a Save (an
\* Open) processed while an earlier save (open) is outstanding issues one more
\* command next to it; a pending command goes away only by update processing
\* its completion; and every successful completion sets path (FileOpened also
\* the buffer) to what it carries, whatever was there, so after both are
\* processed path and buffer are those of the completion processed last.
C17_LastWriterWins ==
    [][/\ (last' = "Save" /\ Pending("save", "FileSaved") > 0 /\ Save) =>
            Pending("save", "FileSaved")' = Pending("save", "FileSaved") + 1
       /\ (last' = "Open" /\ Pending("open", "FileOpened") > 0 /\ Open) =>
            Pending("open", "FileOpened")' = Pending("open", "FileOpened") + 1
       /\ (tasks' # tasks \/ inbox' # inbox) =>
            /\ Pending("save", "FileSaved")' < Pending("save", "FileSaved")
                  => FileSaved
            /\ Pending("open", "FileOpened")' < Pending("open", "FileOpened")
                  => FileOpened
       /\ \A m \in BagToSet(inbox) :
            (m.result.ok /\ last' = Kind(m) /\ Completed(m)) =>
                /\ path' = Some(m.result.path)
                /\ m.type = "FileOpened" => content' = m.result.contents]_vars

\* two saves ran side by side and wrote two files: the completion of one was
\* processed, the completion of the other, with the other path, is waiting
C17_Witness ==
    /\ last = "FileSavedOk"
    /\ path = Some(Latin1File)
    /\ BagIn(MsgFileSaved(Ok(DefaultFile)), inbox)

\* C18: in every reachable state is_dirty = false implies that path is set.
C18_CleanHasPath == ~is_dirty => path # None

\* a save has just cleared is_dirty and has set the path of its file
C18_Witness ==
    /\ last = "FileSavedOk"
    /\ ~is_dirty
    /\ path # None
    /\ FileAt(path) = Some(content)

\* the save commands that are running, each with its target and its text
SaveTasks ==
    [t \in {x \in BagToSet(tasks) : x.kind = "save"} |-> CopiesIn(t, tasks)]

\* C19: a save command works on a snapshot: it holds the path and the text
\* of the buffer of the moment Save was processed; no message processed while
\* it is outstanding (Edit, New, FileOpened, ...) changes what it writes or
\* where; the dialog, asked only when the snapshot has no path, adds the
\* target and keeps the text; the write puts the snapshot text in the target
\* and FileSaved(Ok) carries, and sets as path, the path that was written.
C19_SaveSnapshot ==
    [][/\ (last' = "Save" /\ Save) => \E t \in BagToSet(tasks') :
            /\ t.kind = "save" /\ t.target = path /\ t.contents = content
            /\ tasks' = Put(tasks, t)
       /\ (tasks' # tasks /\ SaveTasks' # SaveTasks) =>
            (Save \/ SaveDialog \/ SaveWrite)
       /\ \A t \in BagToSet(tasks) :
            /\ \A p \in Paths : (t.kind = "save" /\ SaveDialogPick(t, p)) =>
                  /\ t.target = None
                  /\ tasks' = Put(Take(tasks, t),
                                  Task("save", "write", Some(p), t.contents))
            /\ (t.kind = "save" /\ SaveWriteOk(t)) =>
                  /\ fs' = [fs EXCEPT ![t.target[1]] = Some(t.contents)]
                  /\ inbox' = Put(inbox, MsgFileSaved(Ok(t.target[1])))
       /\ \A m \in BagToSet(inbox) :
            (last' = "FileSavedOk" /\ m.type = "FileSaved" /\ m.result.ok
               /\ Completed(m)) => path' = Some(m.result.path)]_vars

\* a save is about to write while the buffer and the path have moved on:
\* its text and its target are no longer those of the Editor
C19_Witness ==
    \E t \in BagToSet(tasks) :
        /\ t.kind = "save" /\ t.stage = "write"
        /\ t.contents # content
        /\ t.target # path
        /\ last \in {"Edit", "New", "FileOpenedOk"}
====
